---- MODULE Spec2Model ----
(***************************************************************************)
(* A model of the bitcoindata dashboard: the percent-of-ATH series and its *)
(* rankings, the percentile helper, the useApiData hook and the            *)
(* LoadingErrorWrapper component.                                          *)
(*                                                                         *)
(* Prices are positive integers.  Quotients the program computes in        *)
(* floating point are kept as exact fractions [num, den] and compared by   *)
(* cross-multiplication.                                                   *)
(***************************************************************************)
EXTENDS Integers, Sequences, FiniteSets, TLC

VARIABLES
  \* ---- the price series and what is derived from it
  high_values,     \* HistoricalData.high_values: the day's high, per date
  ath_values,      \* HistoricalData.ath_values: the ATH reported per date
  percentages,     \* HistoricalData.percentages: PoPATH per date
  stage,           \* "scanning", then "served", then "rendered"
  hardest_days,    \* HardestDaysData.hardest_days
  easiest_days,    \* HardestDaysData.easiest_days
  hardest_rows,    \* what HardestDaysTable renders in its <tbody>
  easiest_rows,    \* what EasiestDaysTable renders in its <tbody>
  \* ---- one call of calculatePercentile
  value,           \* its first argument
  sortedArray,     \* its second argument, ascending
  percentile,      \* what it returned
  percentile_done, \* whether it has returned
  \* ---- the useApiData instances, each a function of the instance
  url,             \* the url argument of the latest render
  mounted,         \* whether the effect has run once
  data,            \* useState: data
  loading,         \* useState: loading
  error,           \* useState: error
  requests,        \* the numbers of the requests in flight
  issued,          \* how many requests the instance has issued
  latest,          \* how the most recently issued request ended, if it has
  \* ---- one rendering of LoadingErrorWrapper
  props,           \* the props passed
  output,          \* what was returned (shows "nothing" before the call)
  \* ---- one run of deploy.sh and one of test-deployment.sh
  deploy,          \* deploy.sh: its position, variables, gcloud commands, status
  testrun,         \* test-deployment.sh: its position, what it saw, status
  \* ---- one function returned by debounce(func, wait)
  now,             \* the clock
  wait,            \* the wait argument
  timeout,         \* the closure's timeout variable: a timer id, 0 for undefined
  timers,          \* the timers set and neither run nor cleared
  calls,           \* the calls of the returned function so far
  invoked,         \* the invocations of func so far
  \* ---- the sentiment utilities applied to two values
  percents,        \* the two percentOfAth arguments
  sentiments,      \* what getSentimentData returned for each
  gradients,       \* what getIntensityColor returned for each
  \* ---- one rendering of the JSX PlotlyChart
  chart,           \* the layout and config props the caller passed
  plot             \* the layout and config props passed on to Plot

seriesVars == <<high_values, ath_values, percentages>>
rankVars == <<stage, hardest_days, easiest_days, hardest_rows, easiest_rows>>
percentileVars == <<value, sortedArray, percentile, percentile_done>>
hookVars == <<url, mounted, data, loading, error, requests, issued, latest>>
wrapperVars == <<props, output>>
scriptVars == <<deploy, testrun>>
debounceVars == <<now, wait, timeout, timers, calls, invoked>>
sentimentVars == <<percents, sentiments, gradients>>
plotVars == <<chart, plot>>
vars == <<seriesVars, rankVars, percentileVars, hookVars, wrapperVars,
          scriptVars, debounceVars, sentimentVars, plotVars>>

\* What an action on the series leaves alone, and so on.
notSeries ==
  <<percentileVars, hookVars, wrapperVars, scriptVars, debounceVars,
    sentimentVars, plotVars>>
notPercentile ==
  <<seriesVars, rankVars, hookVars, wrapperVars, scriptVars, debounceVars,
    sentimentVars, plotVars>>
notHooks ==
  <<seriesVars, rankVars, percentileVars, wrapperVars, scriptVars, debounceVars,
    sentimentVars, plotVars>>
notWrapper ==
  <<seriesVars, rankVars, percentileVars, hookVars, scriptVars, debounceVars,
    sentimentVars, plotVars>>
notDeploy ==
  <<seriesVars, rankVars, percentileVars, hookVars, wrapperVars, testrun,
    debounceVars, sentimentVars, plotVars>>
notTestrun ==
  <<seriesVars, rankVars, percentileVars, hookVars, wrapperVars, deploy,
    debounceVars, sentimentVars, plotVars>>
notDebounce ==
  <<seriesVars, rankVars, percentileVars, hookVars, wrapperVars, scriptVars,
    sentimentVars, plotVars>>
notSentiment ==
  <<seriesVars, rankVars, percentileVars, hookVars, wrapperVars, scriptVars,
    debounceVars, plotVars>>
notPlot ==
  <<seriesVars, rankVars, percentileVars, hookVars, wrapperVars, scriptVars,
    debounceVars, sentimentVars>>

NULL == "null"

\* ---------------------------------------------------------------- bounds
\* SpecSeries: the length of the series and the highest day's high.
MaxDays == 5
MaxPrice == 3
\* SpecRanking: the days the series may hold beyond the TopN a ranking
\* holds.  Its highs come from RankedHighs: two price levels give two
\* PoPATH values, which is what order, ties and the cut at TopN need.
MaxExtraDays == 1
\* SpecPercentile: the length of the array and its highest value.
MaxLen == 3
MaxValue == 3
\* SpecHook: the requests one instance may issue; SpecApp: each instance.
MaxRequests == 3
MaxAppRequests == 2
\* SpecDebounce: the clock's last value, the longest wait and the calls made.
MaxTime == 4
MaxWait == 2
MaxCalls == 3
\* SpecSentiment: the highest percentOfAth the utilities are applied to.
MaxPercentOfAth == 101
RankedHighs == {1, 2}

\* The rankings hold ten days.
TopN == 10

\* ------------------------------------------------------------- fractions
Frac(n, d) == [num |-> n, den |-> d]
FracEq(a, b) == a.num * b.den = b.num * a.den
FracLess(a, b) == a.num * b.den < b.num * a.den
FracLeq(a, b) == a.num * b.den <= b.num * a.den

Max2(a, b) == IF a >= b THEN a ELSE b
SetMax(S) == CHOOSE m \in S : \A x \in S : x <= m

\* ------------------------------------------------------ calculatePercentile
\* Array.prototype.findIndex with the predicate item >= value: the 0-based
\* position of the first such item, -1 when there is none.
FindIndexAtLeast(array, v) ==
  LET hits == {k \in 1..Len(array) : array[k] >= v}
  IN IF hits = {} THEN -1
     ELSE (CHOOSE k \in hits : \A j \in hits : k <= j) - 1

calculatePercentile(v, array) ==
  LET index == FindIndexAtLeast(array, v)
  IN IF index = -1 THEN Frac(100, 1)
     ELSE Frac(index * 100, Len(array))

\* The ascending arrays of at most MaxLen values.
AscendingArrays ==
  UNION {{a \in [1..n -> 1..MaxValue] : \A k \in 1..(n - 1) : a[k] <= a[k + 1]}
         : n \in 0..MaxLen}

IdlePercentile ==
  /\ value = 0
  /\ sortedArray = <<>>
  /\ percentile = Frac(0, 1)
  /\ percentile_done = FALSE

InitPercentile ==
  /\ value \in 0..(MaxValue + 1)
  /\ sortedArray \in AscendingArrays
  /\ percentile = Frac(0, 1)
  /\ percentile_done = FALSE

CallCalculatePercentile ==
  /\ ~percentile_done
  /\ percentile' = calculatePercentile(value, sortedArray)
  /\ percentile_done' = TRUE
  /\ UNCHANGED <<value, sortedArray, notPercentile>>

\* ------------------------------------------------- the running-maximum scan
\* The ATH carried by the scan before the next day is read.
RunningATH == IF ath_values = <<>> THEN 0 ELSE ath_values[Len(ath_values)]

\* Mutant: the ATH as it stood before the day, the day's own high left out.
ATHBeforeDay(p) == IF RunningATH = 0 THEN p ELSE RunningATH

\* The ATH as of a day whose high is p: the running maximum with p included.
ATHIncludingDay(p) == Max2(RunningATH, p)

\* Mutant: the distance below the ATH instead of the percentage of it.
DistanceFromATH(p, ath) == Frac((ath - p) * 100, ath)

\* A day's high as a percentage of an ATH.
PercentOfATH(p, ath) == Frac(p * 100, ath)

\* One step of the single pass: the next day's high is read, the running
\* maximum is advanced and the day's PoPATH is derived from it.
ScanDay(p, limit) ==
  /\ stage = "scanning"
  /\ Len(high_values) < limit
  /\ high_values' = Append(high_values, p)
  /\ ath_values' = Append(ath_values, ATHIncludingDay(p))
  /\ percentages' = Append(percentages, PercentOfATH(p, ATHIncludingDay(p)))
  /\ UNCHANGED <<rankVars, notSeries>>

InitSeries ==
  /\ high_values = <<>>
  /\ ath_values = <<>>
  /\ percentages = <<>>
  /\ stage = "scanning"
  /\ hardest_days = <<>>
  /\ easiest_days = <<>>
  /\ hardest_rows = <<>>
  /\ easiest_rows = <<>>

\* ------------------------------------------------------------ the rankings
\* The record the hardest-days endpoint reports for date i.
HardestDay(i) ==
  [date |-> i, percent_of_ath |-> percentages[i], price |-> high_values[i],
   ath_at_time |-> ath_values[i], dollar_loss |-> ath_values[i] - high_values[i]]

\* Mutant: the gain is measured from the ATH as it stood before the day.
EasiestDayAgainstPreviousATH(i) ==
  [date |-> i, percent_of_ath |-> percentages[i], price |-> high_values[i],
   ath_at_time |-> ath_values[i],
   dollar_gain |-> high_values[i] - (IF i = 1 THEN high_values[1] ELSE ath_values[i - 1])]

EasiestDay(i) ==
  [date |-> i, percent_of_ath |-> percentages[i], price |-> high_values[i],
   ath_at_time |-> ath_values[i], dollar_gain |-> high_values[i] - ath_values[i]]

\* Whether date i is ranked before date j: by PoPATH, lowest first
\* (ascending) or highest first; equal days keep their date order.
RankedBefore(i, j, ascending) ==
  IF ascending THEN FracLess(percentages[i], percentages[j])
  ELSE FracLess(percentages[j], percentages[i])

RECURSIVE InsertDay(_, _, _)
InsertDay(i, s, ascending) ==
  IF s = <<>> THEN <<i>>
  ELSE IF RankedBefore(i, Head(s), ascending) THEN <<i>> \o s
  ELSE <<Head(s)>> \o InsertDay(i, Tail(s), ascending)

RECURSIVE SortDays(_, _)
SortDays(n, ascending) ==
  IF n = 0 THEN <<>> ELSE InsertDay(n, SortDays(n - 1, ascending), ascending)

FirstN(s, n) == SubSeq(s, 1, IF Len(s) < n THEN Len(s) ELSE n)

HardestDaysOf(n) ==
  LET order == FirstN(SortDays(n, TRUE), TopN)
  IN [k \in 1..Len(order) |-> HardestDay(order[k])]

EasiestDaysOf(n) ==
  LET order == FirstN(SortDays(n, FALSE), TopN)
  IN [k \in 1..Len(order) |-> EasiestDay(order[k])]

\* GET /api/hardest-days: the rankings over the whole series.
HardestDaysEndpoint ==
  /\ stage = "scanning"
  /\ Len(high_values) > 0
  /\ stage' = "served"
  /\ hardest_days' = HardestDaysOf(Len(high_values))
  /\ easiest_days' = EasiestDaysOf(Len(high_values))
  /\ UNCHANGED <<seriesVars, hardest_rows, easiest_rows, notSeries>>

\* ----------------------------------------------------------- the two tables
\* One <tr> of HardestDaysTable; index is the 0-based position map() passes.
HardestRow(day, index) ==
  [key |-> day.date,
   highlight |-> index = 0,
   badge |-> IF index = 0 THEN "bg-red-600" ELSE "bg-gray-400",
   rank |-> index + 1,
   percent_of_ath |-> day.percent_of_ath]

\* Mutant: the row shows map()'s 0-based index as the rank.
EasiestRowRankFromZero(day, index) ==
  [key |-> day.date,
   highlight |-> index = 0,
   badge |-> IF index = 0 THEN "bg-green-600" ELSE "bg-gray-400",
   rank |-> index,
   gain |-> IF day.dollar_gain > 0 THEN "+" ELSE "-",
   percent_of_ath |-> day.percent_of_ath]

\* One <tr> of EasiestDaysTable.
EasiestRow(day, index) ==
  [key |-> day.date,
   highlight |-> index = 0,
   badge |-> IF index = 0 THEN "bg-green-600" ELSE "bg-gray-400",
   rank |-> index + 1,
   gain |-> IF day.dollar_gain > 0 THEN "+" ELSE "-",
   percent_of_ath |-> day.percent_of_ath]

HardestDaysTableRows(days) == [k \in 1..Len(days) |-> HardestRow(days[k], k - 1)]
EasiestDaysTableRows(days) == [k \in 1..Len(days) |-> EasiestRow(days[k], k - 1)]

\* App renders both tables from the one hardest-days response.
RenderTables ==
  /\ stage = "served"
  /\ stage' = "rendered"
  /\ hardest_rows' = HardestDaysTableRows(hardest_days)
  /\ easiest_rows' = EasiestDaysTableRows(easiest_days)
  /\ UNCHANGED <<seriesVars, hardest_days, easiest_days, notSeries>>


\* -------------------------------------------------------------- useApiData
\* The instances App creates: current-analysis and hardest-days.
Hooks == {"analysis", "hardest"}

Endpoint(h) ==
  IF h = "analysis" THEN "/api/current-analysis" ELSE "/api/hardest-days"

\* The urls an instance is rendered with: none, or its endpoint.
Urls(h) == {"", Endpoint(h)}

UNDEFINED == "undefined"

\* JavaScript truthiness of the values a response field may hold.
Truthy(v) == v \notin {UNDEFINED, NULL, ""}

\* How a request may end.  "json": the body parsed to an ApiResponse (a
\* field that is absent is UNDEFINED); "not_json": res.json() rejected with
\* a SyntaxError; "network_error": fetch rejected with an Error;
\* "rejected_value": the promise rejected with something that is no Error.
Payloads == {"payload1", "payload2"}
Outcomes ==
  {[kind |-> "json", success |-> TRUE, data |-> d, error |-> UNDEFINED, message |-> ""] :
     d \in {UNDEFINED, NULL} \cup Payloads}
  \cup
  {[kind |-> "json", success |-> FALSE, data |-> UNDEFINED, error |-> e, message |-> ""] :
     e \in {UNDEFINED, "", "Server error"}}
  \cup
  {[kind |-> "not_json", success |-> FALSE, data |-> UNDEFINED, error |-> UNDEFINED,
    message |-> "Unexpected token < in JSON"],
   [kind |-> "network_error", success |-> FALSE, data |-> UNDEFINED, error |-> UNDEFINED,
    message |-> "Failed to fetch"],
   [kind |-> "rejected_value", success |-> FALSE, data |-> UNDEFINED, error |-> UNDEFINED,
    message |-> ""]}

\* What reaches .catch: nothing, an Error with a message, or another value.
NoThrow == [thrown |-> FALSE, isError |-> FALSE, message |-> ""]
ErrorOf(m) == [thrown |-> TRUE, isError |-> TRUE, message |-> m]
OtherValue == [thrown |-> TRUE, isError |-> FALSE, message |-> ""]

\* fetch(url).then(res => res.json()).then(result => ...): the rejection
\* the chain carries when it reaches .catch.
Rejection(o) ==
  IF o.kind = "json"
  THEN IF o.success THEN NoThrow
       ELSE ErrorOf(IF Truthy(o.error) THEN o.error ELSE "API request failed")
  ELSE IF o.kind = "rejected_value" THEN OtherValue
  ELSE ErrorOf(o.message)

\* Mutant: a failed request clears the data.
DataClearedOnFailure(old, o) ==
  IF o.kind = "json" /\ o.success
  THEN IF Truthy(o.data) THEN o.data ELSE NULL
  ELSE NULL

\* .then(result => { if (result.success) setData(result.data || null) ... })
DataAfter(old, o) ==
  IF o.kind = "json" /\ o.success
  THEN IF Truthy(o.data) THEN o.data ELSE NULL
  ELSE old

\* .catch(err => setError(err instanceof Error ? err.message : ...))
ErrorAfter(old, o) ==
  LET err == Rejection(o)
  IN IF ~err.thrown THEN old
     ELSE IF err.isError THEN err.message
     ELSE "Network error occurred"

\* Mutant: loading is cleared by a .then after the data is set, which a
\* rejection skips.
LoadingAfterSuccessOnly(old, o) == IF Rejection(o).thrown THEN old ELSE FALSE

\* .finally(() => setLoading(false))
LoadingAfter(old, o) == FALSE

\* Mutant: the state is one module-level value that every instance shares.
SetStateShared(state, h, v) == [g \in DOMAIN state |-> v]

\* A useState setter writes the state of its own instance.
SetState(state, h, v) == [state EXCEPT ![h] = v]

\* What latest holds for an instance that has issued no request, and for
\* one whose most recently issued request is in flight.
NoRequest ==
  [kind |-> "none", success |-> FALSE, data |-> UNDEFINED, error |-> UNDEFINED,
   message |-> ""]
Pending ==
  [kind |-> "pending", success |-> FALSE, data |-> UNDEFINED, error |-> UNDEFINED,
   message |-> ""]

\* Mutant: refetch resets the data when it starts a request.
RefetchClearsData(h, u) ==
  IF u = ""
  THEN UNCHANGED <<data, loading, error, requests, issued, latest>>
  ELSE /\ loading' = SetState(loading, h, TRUE)
       /\ error' = SetState(error, h, NULL)
       /\ data' = SetState(data, h, NULL)
       /\ issued' = [issued EXCEPT ![h] = @ + 1]
       /\ requests' = [requests EXCEPT ![h] = @ \cup {issued[h] + 1}]
       /\ latest' = [latest EXCEPT ![h] = Pending]

\* Mutant: refetch has no guard on the url.
RefetchWithoutUrlGuard(h, u) ==
  /\ loading' = SetState(loading, h, TRUE)
  /\ error' = SetState(error, h, NULL)
  /\ issued' = [issued EXCEPT ![h] = @ + 1]
  /\ requests' = [requests EXCEPT ![h] = @ \cup {issued[h] + 1}]
  /\ latest' = [latest EXCEPT ![h] = Pending]
  /\ UNCHANGED data

\* refetch(): nothing without a url; otherwise loading and error are set
\* and the fetch is started.
Refetch(h, u) ==
  IF u = ""
  THEN UNCHANGED <<data, loading, error, requests, issued, latest>>
  ELSE /\ loading' = SetState(loading, h, TRUE)
       /\ error' = SetState(error, h, NULL)
       /\ issued' = [issued EXCEPT ![h] = @ + 1]
       /\ requests' = [requests EXCEPT ![h] = @ \cup {issued[h] + 1}]
       /\ latest' = [latest EXCEPT ![h] = Pending]
       /\ UNCHANGED data

\* Whether the bound lets the instance issue a request for url u.
MayIssue(h, u, cap) == u = "" \/ issued[h] < cap

\* useEffect(refetch, [url, ...dependencies]) on mount.
Mount(h, cap) ==
  /\ ~mounted[h]
  /\ MayIssue(h, url[h], cap)
  /\ mounted' = [mounted EXCEPT ![h] = TRUE]
  /\ Refetch(h, url[h])
  /\ UNCHANGED <<url, notHooks>>

\* The component renders with another url: the effect runs refetch again.
ChangeUrl(h, u, cap) ==
  /\ mounted[h]
  /\ u # url[h]
  /\ MayIssue(h, u, cap)
  /\ url' = [url EXCEPT ![h] = u]
  /\ Refetch(h, u)
  /\ UNCHANGED <<mounted, notHooks>>

\* A dependency changes: the effect runs refetch again.
ChangeDependencies(h, cap) ==
  /\ mounted[h]
  /\ MayIssue(h, url[h], cap)
  /\ Refetch(h, url[h])
  /\ UNCHANGED <<url, mounted, notHooks>>

\* The caller invokes the refetch the hook returned.
CallRefetch(h, cap) ==
  /\ mounted[h]
  /\ MayIssue(h, url[h], cap)
  /\ Refetch(h, url[h])
  /\ UNCHANGED <<url, mounted, notHooks>>

\* Request r of instance h ends with outcome o: its promise chain runs
\* .then, .catch and .finally.
Settle(h, r, o) ==
  /\ r \in requests[h]
  /\ requests' = [requests EXCEPT ![h] = @ \ {r}]
  /\ data' = SetState(data, h, DataAfter(data[h], o))
  /\ error' = SetState(error, h, ErrorAfter(error[h], o))
  /\ loading' = SetState(loading, h, LoadingAfter(loading[h], o))
  /\ latest' = IF r = issued[h] THEN [latest EXCEPT ![h] = o] ELSE latest
  /\ UNCHANGED <<url, mounted, issued, notHooks>>

\* Some request of instance h ends in some way.
SettleSome(h) == \E r \in requests[h], o \in Outcomes : Settle(h, r, o)

\* useState(null), useState(true), useState(null); no effect has run.
InitHookState ==
  /\ mounted = [h \in Hooks |-> FALSE]
  /\ data = [h \in Hooks |-> NULL]
  /\ loading = [h \in Hooks |-> TRUE]
  /\ error = [h \in Hooks |-> NULL]
  /\ requests = [h \in Hooks |-> {}]
  /\ issued = [h \in Hooks |-> 0]
  /\ latest = [h \in Hooks |-> NoRequest]

\* The instances as App creates them.
InitApp ==
  /\ url = [h \in Hooks |-> Endpoint(h)]
  /\ InitHookState

IdleHooks == InitApp

\* One instance created with any url, the other as in App.
InitHook ==
  /\ url \in [Hooks -> {""} \cup {Endpoint(h) : h \in Hooks}]
  /\ url["analysis"] \in Urls("analysis")
  /\ url["hardest"] = Endpoint("hardest")
  /\ InitHookState

\* ------------------------------------------------------ LoadingErrorWrapper
\* A parameter's default value replaces an argument that is undefined.
Default(v, d) == IF v = UNDEFINED THEN d ELSE v

\* Mutant: the error is looked at before loading.
LoadingErrorWrapperErrorFirst(p) ==
  LET loadingMessage == Default(p.loadingMessage, "Loading...")
      errorMessage == Default(p.errorMessage, "Failed to load data")
  IN IF Truthy(p.error)
     THEN [shows |-> "error", first |-> errorMessage, second |-> p.error]
     ELSE IF p.loading
     THEN [shows |-> "loading", first |-> loadingMessage, second |-> ""]
     ELSE [shows |-> "children", first |-> p.children, second |-> ""]

\* The element returned: the loading <div>, the error <div> with its two
\* paragraphs, or the children.
LoadingErrorWrapper(p) ==
  LET loadingMessage == Default(p.loadingMessage, "Loading...")
      errorMessage == Default(p.errorMessage, "Failed to load data")
  IN IF p.loading
     THEN [shows |-> "loading", first |-> loadingMessage, second |-> ""]
     ELSE IF Truthy(p.error)
     THEN [shows |-> "error", first |-> errorMessage, second |-> p.error]
     ELSE [shows |-> "children", first |-> p.children, second |-> ""]

\* The props a caller may pass.
WrapperProps ==
  [loading : BOOLEAN,
   error : {NULL, "", "Server error", "Network error occurred"},
   loadingMessage : {UNDEFINED, "Loading hardest days..."},
   errorMessage : {UNDEFINED, "Failed to load hardest days"},
   children : {"false", "<table>"}]

NotRendered == [shows |-> "nothing", first |-> "", second |-> ""]

IdleWrapper ==
  /\ props = [loading |-> TRUE, error |-> NULL, loadingMessage |-> UNDEFINED,
              errorMessage |-> UNDEFINED, children |-> "false"]
  /\ output = NotRendered

InitWrapper ==
  /\ props \in WrapperProps
  /\ output = NotRendered

RenderWrapper ==
  /\ output = NotRendered
  /\ output' = LoadingErrorWrapper(props)
  /\ UNCHANGED <<props, notWrapper>>

\* What a component shows for instance h: the wrapper around the content it
\* renders when there is data ({data && ...}).
HookView(h) ==
  LoadingErrorWrapper(
    [loading |-> loading[h], error |-> error[h], loadingMessage |-> UNDEFINED,
     errorMessage |-> UNDEFINED,
     children |-> IF data[h] # NULL THEN data[h] ELSE "false"])

\* ---------------------------------------------------------------- deploy.sh
\* [ -z "$VAR" ]: true of a variable that is unset and of one that is empty.
IsZeroLength(v) == v = ""

\* The environments deploy.sh may be started in ("" is unset or empty).
DeployEnvironments ==
  [PROJECT_ID : {"", "my-project"},
   WEB_SERVICE_NAME : {"", "my-service"},
   REGION : {"", "europe-west1"},
   GCS_BUCKET_NAME : {"", "my-bucket"}]

\* The exit statuses of a gcloud command.
GcloudStatuses == {0, 1, 2}

Running == -1

\* exit n, or set -e after a command that returned n.
DeployExit(n) == deploy' = [deploy EXCEPT !.pc = "exited", !.status = n]

\* Lines 12-16.
CheckProjectId ==
  /\ deploy.pc = "check_project_id"
  /\ IF IsZeroLength(deploy.env.PROJECT_ID)
     THEN DeployExit(1)
     ELSE deploy' = [deploy EXCEPT !.pc = "set_service_name"]
  /\ UNCHANGED notDeploy

\* Lines 18-24.
SetServiceName ==
  /\ deploy.pc = "set_service_name"
  /\ deploy' = [deploy EXCEPT
       !.pc = "set_region",
       !.SERVICE_NAME = IF IsZeroLength(deploy.env.WEB_SERVICE_NAME)
                        THEN "bitcoin-ath-dashboard"
                        ELSE deploy.env.WEB_SERVICE_NAME]
  /\ UNCHANGED notDeploy

\* Lines 26-30.
SetRegion ==
  /\ deploy.pc = "set_region"
  /\ deploy' = [deploy EXCEPT
       !.pc = "check_bucket",
       !.REGION = IF IsZeroLength(deploy.REGION) THEN "us-central1" ELSE @]
  /\ UNCHANGED notDeploy

\* Mutant: the bucket check reports the error and goes on.
CheckBucketWithoutExit ==
  /\ deploy.pc = "check_bucket"
  /\ deploy' = [deploy EXCEPT !.pc = "builds_submit"]
  /\ UNCHANGED notDeploy

\* Lines 32-36.
CheckBucket ==
  /\ deploy.pc = "check_bucket"
  /\ IF IsZeroLength(deploy.env.GCS_BUCKET_NAME)
     THEN DeployExit(1)
     ELSE deploy' = [deploy EXCEPT !.pc = "builds_submit"]
  /\ UNCHANGED notDeploy

\* A gcloud command is run; under set -e the script goes on only when it
\* returned 0.
Gcloud(at, command, next, s) ==
  /\ deploy.pc = at
  /\ deploy' = [deploy EXCEPT
       !.gcloud = Append(@, command),
       !.pc = IF s = 0 THEN next ELSE "exited",
       !.status = IF s = 0 THEN @ ELSE s]
  /\ UNCHANGED notDeploy

\* Line 55.
GcloudBuildsSubmit(s) ==
  Gcloud("builds_submit",
         [command |-> "builds submit", project |-> deploy.env.PROJECT_ID,
          service |-> deploy.SERVICE_NAME, region |-> "", bucket |-> ""],
         "run_deploy", s)

\* Lines 63-69.
GcloudRunDeploy(s) ==
  Gcloud("run_deploy",
         [command |-> "run deploy", project |-> deploy.env.PROJECT_ID,
          service |-> deploy.SERVICE_NAME, region |-> deploy.REGION,
          bucket |-> deploy.env.GCS_BUCKET_NAME],
         "services_describe", s)

\* Line 73: the status of an assignment is that of its command substitution.
GcloudServicesDescribe(s) ==
  Gcloud("services_describe",
         [command |-> "run services describe", project |-> "",
          service |-> deploy.SERVICE_NAME, region |-> deploy.REGION,
          bucket |-> ""],
         "report", s)

\* Lines 74-75 and the end of the script.
DeployReport ==
  /\ deploy.pc = "report"
  /\ deploy' = [deploy EXCEPT !.pc = "done", !.status = 0]
  /\ UNCHANGED notDeploy

DeployStart(e) ==
  [pc |-> "check_project_id", env |-> e, SERVICE_NAME |-> "", REGION |-> e.REGION,
   gcloud |-> <<>>, status |-> Running]

DeployStep ==
  \/ CheckProjectId
  \/ SetServiceName
  \/ SetRegion
  \/ CheckBucket
  \/ \E s \in GcloudStatuses : GcloudBuildsSubmit(s)
  \/ \E s \in GcloudStatuses : GcloudRunDeploy(s)
  \/ \E s \in GcloudStatuses : GcloudServicesDescribe(s)
  \/ DeployReport

\* -------------------------------------------------------- test-deployment.sh
TestExit(n) == testrun' = [testrun EXCEPT !.pc = "exited", !.status = n]
TestGoto(next) == testrun' = [testrun EXCEPT !.pc = next]

\* A prerequisite check of lines 14-32: exit 1 unless the thing is there.
Prerequisite(at, next, present) ==
  /\ testrun.pc = at
  /\ IF present THEN TestGoto(next) ELSE TestExit(1)
  /\ UNCHANGED notTestrun

\* A command under set -e: the script goes on only when it returned 0.
TestCommand(at, next, ok) ==
  /\ testrun.pc = at
  /\ IF ok THEN TestGoto(next) ELSE TestExit(1)
  /\ UNCHANGED notTestrun

CheckDocker(present) == Prerequisite("command_docker", "command_npm", present)
CheckNpm(present) == Prerequisite("command_npm", "package_json", present)
CheckPackageJson(present) == Prerequisite("package_json", "dockerfile", present)
CheckDockerfile(present) == Prerequisite("dockerfile", "type_check", present)
NpmRunTypeCheck(ok) == TestCommand("type_check", "build", ok)
NpmRunBuild(ok) == TestCommand("build", "docker_build", ok)
DockerBuild(ok) == TestCommand("docker_build", "docker_run", ok)
\* Line 55: CONTAINER_ID=$(docker run -d ...).
DockerRun(ok) == TestCommand("docker_run", "docker_ps", ok)

\* Lines 58-61: after the sleep, docker ps | grep -q "$CONTAINER_ID".
DockerPs(listed) ==
  /\ testrun.pc = "docker_ps"
  /\ testrun' = [testrun EXCEPT
       !.pc = IF listed THEN "curl" ELSE "docker_logs",
       !.running = listed]
  /\ UNCHANGED notTestrun

\* Lines 65-70: curl -f; a failure is reported as a warning.
Curl(ok) ==
  /\ testrun.pc = "curl"
  /\ testrun' = [testrun EXCEPT !.pc = "cleanup", !.responded = ok]
  /\ UNCHANGED notTestrun

\* Lines 72-83: the logs are searched for the words of a GCS failure.
DockerLogs(expected) ==
  /\ testrun.pc = "docker_logs"
  /\ IF expected THEN TestGoto("cleanup") ELSE TestExit(1)
  /\ UNCHANGED notTestrun

\* Lines 88-90: docker stop, rm and rmi, each with || true.
Cleanup ==
  /\ testrun.pc = "cleanup"
  /\ TestGoto("report")
  /\ UNCHANGED notTestrun

\* Lines 92-101: "All tests passed!" and the end of the script.
TestReport ==
  /\ testrun.pc = "report"
  /\ testrun' = [testrun EXCEPT !.pc = "passed", !.status = 0]
  /\ UNCHANGED notTestrun

TestStart ==
  [pc |-> "command_docker", running |-> FALSE, responded |-> FALSE,
   status |-> Running]

TestStep ==
  \/ \E present \in BOOLEAN : CheckDocker(present)
  \/ \E present \in BOOLEAN : CheckNpm(present)
  \/ \E present \in BOOLEAN : CheckPackageJson(present)
  \/ \E present \in BOOLEAN : CheckDockerfile(present)
  \/ \E ok \in BOOLEAN : NpmRunTypeCheck(ok)
  \/ \E ok \in BOOLEAN : NpmRunBuild(ok)
  \/ \E ok \in BOOLEAN : DockerBuild(ok)
  \/ \E ok \in BOOLEAN : DockerRun(ok)
  \/ \E listed \in BOOLEAN : DockerPs(listed)
  \/ \E ok \in BOOLEAN : Curl(ok)
  \/ \E expected \in BOOLEAN : DockerLogs(expected)
  \/ Cleanup
  \/ TestReport

\* Neither script has been started on anything but an empty environment.
IdleScripts ==
  /\ deploy = DeployStart([PROJECT_ID |-> "", WEB_SERVICE_NAME |-> "",
                           REGION |-> "", GCS_BUCKET_NAME |-> ""])
  /\ testrun = TestStart

InitScripts ==
  /\ deploy \in {DeployStart(e) : e \in DeployEnvironments}
  /\ testrun = TestStart

\* ----------------------------------------------------------------- debounce
\* The arguments the returned function is called with.
Arguments == {"a", "b"}

\* Mutant: the timer is due at once.
DueTimeImmediate(t, w) == t

\* setTimeout(later, wait) at time t: later runs at t + w or after it.
DueTime(t, w) == t + w

\* Mutant: clearTimeout has no effect.
ClearTimeoutIgnored(table, id) == table

\* clearTimeout(id): the timer with that id, if it is still set, is dropped;
\* an id that is undefined or names a timer that has run changes nothing.
ClearTimeout(table, id) == {t \in table : t.id # id}

\* The returned function is called with args: lines 54-62.  The timer it
\* sets carries the later() of this call, and so this call's args.
CallDebounced(args, limit) ==
  /\ Len(calls) < limit
  /\ LET id == Len(calls) + 1
     IN /\ timers' = ClearTimeout(timers, timeout)
                       \cup {[id |-> id, due |-> DueTime(now, wait), args |-> args]}
        /\ timeout' = id
  /\ calls' = Append(calls, [time |-> now, args |-> args, fresh |-> timers = {}])
  /\ UNCHANGED <<now, wait, invoked, notDebounce>>

\* A timer that is due runs its later(): lines 55-58.
RunTimer(t) ==
  /\ t \in timers
  /\ t.due <= now
  /\ timers' = ClearTimeout(timers \ {t}, timeout)
  /\ invoked' = Append(invoked, [time |-> now, args |-> t.args, after |-> Len(calls)])
  /\ UNCHANGED <<now, wait, timeout, calls, notDebounce>>

RunSomeTimer == \E t \in timers : RunTimer(t)

\* Time passes.  A timer that is due need not have run yet: the event loop
\* runs it when it gets to it.
Tick(limit) ==
  /\ now < limit
  /\ now' = now + 1
  /\ UNCHANGED <<wait, timeout, timers, calls, invoked, notDebounce>>

IdleDebounce ==
  /\ now = 0
  /\ wait = 0
  /\ timeout = 0
  /\ timers = {}
  /\ calls = <<>>
  /\ invoked = <<>>

\* ---------------------------------------------------- the sentiment utilities
\* A number is an exact fraction; NaN is what a comparison is never true of.
NaN == [num |-> 0, den |-> 0]

\* JavaScript's x >= n and x < n for a number x and an integer n.
GreaterOrEqual(x, n) == x.den # 0 /\ x.num >= n * x.den
LessThan(x, n) == x.den # 0 /\ x.num < n * x.den

\* Mutant: the second band starts at 75.
getSentimentColorFrom75(percentOfAth) ==
  IF GreaterOrEqual(percentOfAth, 90) THEN "text-green-600"
  ELSE IF GreaterOrEqual(percentOfAth, 75) THEN "text-green-500"
  ELSE IF GreaterOrEqual(percentOfAth, 50) THEN "text-yellow-500"
  ELSE IF GreaterOrEqual(percentOfAth, 30) THEN "text-orange-500"
  ELSE "text-red-500"

getSentimentColor(percentOfAth) ==
  IF GreaterOrEqual(percentOfAth, 90) THEN "text-green-600"
  ELSE IF GreaterOrEqual(percentOfAth, 70) THEN "text-green-500"
  ELSE IF GreaterOrEqual(percentOfAth, 50) THEN "text-yellow-500"
  ELSE IF GreaterOrEqual(percentOfAth, 30) THEN "text-orange-500"
  ELSE "text-red-500"

getSentimentBg(percentOfAth) ==
  IF GreaterOrEqual(percentOfAth, 90) THEN "bg-green-50 border-green-200"
  ELSE IF GreaterOrEqual(percentOfAth, 70) THEN "bg-green-50 border-green-200"
  ELSE IF GreaterOrEqual(percentOfAth, 50) THEN "bg-yellow-50 border-yellow-200"
  ELSE IF GreaterOrEqual(percentOfAth, 30) THEN "bg-orange-50 border-orange-200"
  ELSE "bg-red-50 border-red-200"

\* Mutant: a fifth phrase for the band from 30.
getSentimentWordWithFifthPhrase(percentOfAth) ==
  IF GreaterOrEqual(percentOfAth, 90) THEN "an easy"
  ELSE IF GreaterOrEqual(percentOfAth, 70) THEN "a medium"
  ELSE IF GreaterOrEqual(percentOfAth, 50) THEN "a hard"
  ELSE IF GreaterOrEqual(percentOfAth, 30) THEN "a tough"
  ELSE "really hard"

getSentimentWord(percentOfAth) ==
  IF GreaterOrEqual(percentOfAth, 90) THEN "an easy"
  ELSE IF GreaterOrEqual(percentOfAth, 70) THEN "a medium"
  ELSE IF GreaterOrEqual(percentOfAth, 50) THEN "a hard"
  ELSE "really hard"

\* Mutant: the two red gradients are exchanged.
getIntensityColorRedsExchanged(percentOfAth) ==
  IF LessThan(percentOfAth, 35) THEN "from-red-500 to-red-600"
  ELSE IF LessThan(percentOfAth, 50) THEN "from-red-600 to-red-700"
  ELSE IF LessThan(percentOfAth, 65) THEN "from-orange-500 to-red-500"
  ELSE "from-orange-400 to-orange-500"

getIntensityColor(percentOfAth) ==
  IF LessThan(percentOfAth, 35) THEN "from-red-600 to-red-700"
  ELSE IF LessThan(percentOfAth, 50) THEN "from-red-500 to-red-600"
  ELSE IF LessThan(percentOfAth, 65) THEN "from-orange-500 to-red-500"
  ELSE "from-orange-400 to-orange-500"

getSentimentData(percentOfAth) ==
  LET intensity ==
        IF GreaterOrEqual(percentOfAth, 90) THEN "euphoric"
        ELSE IF GreaterOrEqual(percentOfAth, 70) THEN "good"
        ELSE IF GreaterOrEqual(percentOfAth, 50) THEN "okay"
        ELSE IF GreaterOrEqual(percentOfAth, 30) THEN "tough"
        ELSE "hard"
  IN [color |-> getSentimentColor(percentOfAth),
      bgColor |-> getSentimentBg(percentOfAth),
      word |-> getSentimentWord(percentOfAth),
      intensity |-> intensity]

\* The arguments: the halves from 0 to MaxPercentOfAth, and NaN.
Percents == {Frac(n, 2) : n \in 0..(2 * MaxPercentOfAth)} \cup {NaN}

\* getSentimentData is applied to both arguments.
CallGetSentimentData ==
  /\ sentiments = <<>>
  /\ sentiments' = [k \in 1..2 |-> getSentimentData(percents[k])]
  /\ UNCHANGED <<percents, gradients, notSentiment>>

\* getIntensityColor is applied to both arguments.
CallGetIntensityColor ==
  /\ gradients = <<>>
  /\ gradients' = [k \in 1..2 |-> getIntensityColor(percents[k])]
  /\ UNCHANGED <<percents, sentiments, notSentiment>>

IdleSentiment ==
  /\ percents = <<NaN, NaN>>
  /\ sentiments = <<>>
  /\ gradients = <<>>

InitSentiment ==
  /\ percents \in Percents \X Percents
  /\ sentiments = <<>>
  /\ gradients = <<>>

\* ------------------------------------------------------- PlotlyChart (JSX)
\* A JavaScript object is a function from its keys to its values; a value
\* that is no object is held as Scalar of its text.
Scalar(v) == [value |-> v]
EmptyObject == <<>>

defaultLayout ==
  [margin |-> [t |-> "20", r |-> "20", b |-> "60", l |-> "60"],
   plot_bgcolor |-> Scalar("white"),
   paper_bgcolor |-> Scalar("white"),
   font |-> [family |-> "-apple-system, BlinkMacSystemFont, Segoe UI, Roboto, sans-serif"],
   autosize |-> Scalar("true"),
   xaxis |-> [showgrid |-> "false"],
   yaxis |-> [showgrid |-> "true", gridcolor |-> "#f0f0f0"]]

defaultConfig ==
  [responsive |-> Scalar("true"),
   displayModeBar |-> Scalar("false")]

defaultStyle == [width |-> "100%", height |-> "400px"]

\* Mutant: a key both objects have is merged key by key.
SpreadDeep(a, b) ==
  [k \in DOMAIN a \cup DOMAIN b |->
     IF k \in DOMAIN a /\ k \in DOMAIN b
     THEN [j \in DOMAIN a[k] \cup DOMAIN b[k] |->
             IF j \in DOMAIN b[k] THEN b[k][j] ELSE a[k][j]]
     ELSE IF k \in DOMAIN b THEN b[k] ELSE a[k]]

\* { ...a, ...b }: the keys of both, with b's value where b has the key.
Spread(a, b) ==
  [k \in DOMAIN a \cup DOMAIN b |-> IF k \in DOMAIN b THEN b[k] ELSE a[k]]

\* The values a caller may give for a key of layout and of config.
LayoutValues ==
  [margin |-> {[t |-> "40"]},
   plot_bgcolor |-> {Scalar("black")},
   paper_bgcolor |-> {Scalar("black")},
   font |-> {[size |-> "12"]},
   autosize |-> {Scalar("false"), Scalar(UNDEFINED)},
   xaxis |-> {[title |-> "Date"], [title |-> "Date", showgrid |-> "true"]},
   yaxis |-> {[title |-> "Percent of ATH (%)", range |-> "[0, 105]"]},
   showlegend |-> {Scalar("false")}]

ConfigValues ==
  [responsive |-> {Scalar("false")},
   displayModeBar |-> {Scalar("true")},
   scrollZoom |-> {Scalar("true")}]

\* The objects with some of the keys of values, each with one of its values.
RECURSIVE ObjectsOver(_, _)
ObjectsOver(keys, values) ==
  IF keys = {} THEN {EmptyObject}
  ELSE LET k == CHOOSE key \in keys : TRUE
           rest == ObjectsOver(keys \ {k}, values)
       IN rest \cup
          {[j \in DOMAIN f \cup {k} |-> IF j = k THEN v ELSE f[j]] :
             f \in rest, v \in values[k]}

\* The props of a <PlotlyChart>: given names the props the caller passed.
ChartProps ==
  {[given |-> g, layout |-> l, config |-> c, style |-> s, rest |-> r] :
     g \in SUBSET {"layout", "config", "style"},
     l \in ObjectsOver(DOMAIN LayoutValues, LayoutValues),
     c \in ObjectsOver(DOMAIN ConfigValues, ConfigValues),
     s \in {EmptyObject, [width |-> "100%", height |-> "500px"]},
     r \in {EmptyObject, [useResizeHandler |-> Scalar("false")]}}

\* The props as the caller writes them: one it does not pass holds nothing.
PassedChartProps ==
  {p \in ChartProps :
     /\ "layout" \notin p.given => p.layout = EmptyObject
     /\ "config" \notin p.given => p.config = EmptyObject
     /\ ("style" \in p.given) <=> (p.style # EmptyObject)}

\* A destructured parameter with a default value.
Parameter(p, name, default) == IF name \in p.given THEN p[name] ELSE default

\* The props PlotlyChart passes to Plot.
PlotlyChart(p) ==
  LET layout == Parameter(p, "layout", EmptyObject)
      config == Parameter(p, "config", EmptyObject)
      style == Parameter(p, "style", defaultStyle)
      mergedLayout == Spread(defaultLayout, layout)
      mergedConfig == Spread(defaultConfig, config)
  IN Spread([data |-> Scalar("data"),
             layout |-> mergedLayout,
             config |-> mergedConfig,
             useResizeHandler |-> Scalar("true"),
             style |-> style],
            p.rest)

NoChart ==
  [given |-> {}, layout |-> EmptyObject, config |-> EmptyObject,
   style |-> EmptyObject, rest |-> EmptyObject]

RenderPlotlyChart ==
  /\ plot = EmptyObject
  /\ plot' = PlotlyChart(chart)
  /\ UNCHANGED <<chart, notPlot>>

IdlePlot ==
  /\ chart = NoChart
  /\ plot = EmptyObject

InitPlot ==
  /\ chart \in PassedChartProps
  /\ plot = EmptyObject

\* ---------------------------------------------------------- specifications
\* The series is scanned, the rankings are served and the tables rendered.
NextSeries ==
  \/ \E p \in 1..MaxPrice : ScanDay(p, MaxDays)
  \/ HardestDaysEndpoint
  \/ RenderTables

StartSeries ==
  InitSeries /\ IdlePercentile /\ IdleHooks /\ IdleWrapper /\ IdleScripts /\ IdleDebounce
  /\ IdleSentiment /\ IdlePlot

SpecSeries == StartSeries /\ [][NextSeries]_vars

\* The same program over series long enough for a ranking to leave days out.
NextRanking ==
  \/ \E p \in RankedHighs : ScanDay(p, TopN + MaxExtraDays)
  \/ HardestDaysEndpoint
  \/ RenderTables

SpecRanking == StartSeries /\ [][NextRanking]_vars

\* calculatePercentile is called once on arguments drawn from the bounds.
NextPercentile == CallCalculatePercentile

StartPercentile ==
  InitPercentile /\ InitSeries /\ IdleHooks /\ IdleWrapper /\ IdleScripts /\ IdleDebounce
  /\ IdleSentiment /\ IdlePlot

SpecPercentile == StartPercentile /\ [][NextPercentile]_vars

\* One useApiData instance under every caller action and every outcome.
HookStep(h, cap) ==
  \/ Mount(h, cap)
  \/ \E u \in Urls(h) : ChangeUrl(h, u, cap)
  \/ ChangeDependencies(h, cap)
  \/ CallRefetch(h, cap)
  \/ SettleSome(h)

NextHook == HookStep("analysis", MaxRequests)

StartHook ==
  InitHook /\ InitSeries /\ IdlePercentile /\ IdleWrapper /\ IdleScripts /\ IdleDebounce
  /\ IdleSentiment /\ IdlePlot

SpecHook == StartHook /\ [][NextHook]_vars

\* The instances left alone: the caller never calls refetch and never
\* changes a url or a dependency.  The effect runs after the first render
\* and every request in flight ends.
NextUnattended == \E h \in Hooks : Mount(h, MaxRequests) \/ SettleSome(h)

FairSpecUnattended ==
  /\ StartHook
  /\ [][NextUnattended]_vars
  /\ \A h \in Hooks : WF_vars(Mount(h, MaxRequests)) /\ WF_vars(SettleSome(h))

\* App: both instances, their urls fixed.
AppStep(h) ==
  \/ Mount(h, MaxAppRequests)
  \/ CallRefetch(h, MaxAppRequests)
  \/ SettleSome(h)

NextApp == \E h \in Hooks : AppStep(h)

StartApp ==
  InitApp /\ InitSeries /\ IdlePercentile /\ IdleWrapper /\ IdleScripts /\ IdleDebounce
  /\ IdleSentiment /\ IdlePlot

SpecApp == StartApp /\ [][NextApp]_vars

\* LoadingErrorWrapper is rendered once with props drawn from WrapperProps.
NextWrapper == RenderWrapper

StartWrapper ==
  InitWrapper /\ InitSeries /\ IdlePercentile /\ IdleHooks /\ IdleScripts /\ IdleDebounce
  /\ IdleSentiment /\ IdlePlot

SpecWrapper == StartWrapper /\ [][NextWrapper]_vars

\* Each script is run once, in any environment and with every outcome of
\* the commands it runs.
NextScripts == DeployStep \/ TestStep

StartScripts ==
  InitScripts /\ InitSeries /\ IdlePercentile /\ IdleHooks /\ IdleWrapper /\ IdleDebounce
  /\ IdleSentiment /\ IdlePlot

SpecScripts == StartScripts /\ [][NextScripts]_vars

\* One debounced function: it is called, time passes, its timers run.
InitDebounce ==
  /\ now = 0
  /\ wait \in 0..MaxWait
  /\ timeout = 0
  /\ timers = {}
  /\ calls = <<>>
  /\ invoked = <<>>

NextDebounce ==
  \/ \E args \in Arguments : CallDebounced(args, MaxCalls)
  \/ RunSomeTimer
  \/ Tick(MaxTime)

StartDebounce ==
  InitDebounce /\ InitSeries /\ IdlePercentile /\ IdleHooks /\ IdleWrapper /\ IdleScripts
  /\ IdleSentiment /\ IdlePlot

SpecDebounce == StartDebounce /\ [][NextDebounce]_vars

\* The sentiment utilities are applied to two values drawn from Percents.
NextSentiment == CallGetSentimentData \/ CallGetIntensityColor

StartSentiment ==
  InitSentiment /\ InitSeries /\ IdlePercentile /\ IdleHooks /\ IdleWrapper
  /\ IdleScripts /\ IdleDebounce /\ IdlePlot

SpecSentiment == StartSentiment /\ [][NextSentiment]_vars

\* The JSX PlotlyChart is rendered once with props drawn from PassedChartProps.
NextPlot == RenderPlotlyChart

StartPlot ==
  InitPlot /\ InitSeries /\ IdlePercentile /\ IdleHooks /\ IdleWrapper
  /\ IdleScripts /\ IdleDebounce /\ IdleSentiment

SpecPlot == StartPlot /\ [][NextPlot]_vars

\* ------------------------------------------------------------------ claims
\* The highest of the highs of dates 1..i.
MaxHighUpTo(i) == SetMax({high_values[j] : j \in 1..i})

DatesOf(days) == {days[k].date : k \in 1..Len(days)}

\* A ranking lists at most TopN distinct days of the series with their
\* PoPATH, in the given order, and no day left out would be ranked before
\* a day listed.
IsRanking(days, ascending) ==
  /\ Len(days) <= TopN
  /\ Cardinality(DatesOf(days)) = Len(days)
  /\ \A k \in 1..Len(days) :
       /\ days[k].date \in 1..Len(high_values)
       /\ days[k].percent_of_ath = percentages[days[k].date]
       /\ k < Len(days) =>
            IF ascending
            THEN FracLeq(days[k].percent_of_ath, days[k + 1].percent_of_ath)
            ELSE FracLeq(days[k + 1].percent_of_ath, days[k].percent_of_ath)
       /\ \A i \in (1..Len(high_values)) \ DatesOf(days) :
            IF ascending
            THEN ~FracLess(percentages[i], days[k].percent_of_ath)
            ELSE ~FracLess(days[k].percent_of_ath, percentages[i])

\* The rows of a table show each listed day at its position plus one and
\* highlight position 0 only.
RowsRankDays(rows, days) ==
  /\ Len(rows) = Len(days)
  /\ \A k \in 1..Len(rows) :
       /\ rows[k].key = days[k].date
       /\ rows[k].rank = (k - 1) + 1
       /\ rows[k].highlight <=> (k - 1 = 0)

\* C4: hardest_days holds at most ten days from the lowest PoPATH upward
\* and easiest_days at most ten from the highest downward, each the
\* extremes of the series; the tables rank a day by its position plus one
\* and highlight position 0 only.
C4_RankingsAreOrderedExtremes ==
  /\ stage # "scanning" =>
       /\ IsRanking(hardest_days, TRUE)
       /\ IsRanking(easiest_days, FALSE)
  /\ stage = "rendered" =>
       /\ RowsRankDays(hardest_rows, hardest_days)
       /\ RowsRankDays(easiest_rows, easiest_days)

\* More days than a ranking holds, days of differing PoPATH among them,
\* and both tables rendered.
C4_Witness ==
  /\ stage = "rendered"
  /\ Len(high_values) > TopN
  /\ Len(hardest_rows) = TopN
  /\ Len(easiest_rows) = TopN
  /\ \E i \in (1..Len(high_values)) \ DatesOf(hardest_days) :
       FracLess(hardest_days[1].percent_of_ath, percentages[i])
  /\ \E i \in (1..Len(high_values)) \ DatesOf(easiest_days) :
       FracLess(percentages[i], easiest_days[1].percent_of_ath)

\* How many items of the array are at or below v.
CountAtOrBelow(array, v) == Cardinality({k \in 1..Len(array) : array[k] <= v})

\* C3: for every ascending array and every v, calculatePercentile(v, array)
\* is 100 * |{x in array : x <= v}| / length, the percentage of items at or
\* below v.  (Stated for the arrays that have a length to divide by.)
C3_PercentileCountsAtOrBelow ==
  (percentile_done /\ Len(sortedArray) > 0) =>
    FracEq(percentile,
           Frac(100 * CountAtOrBelow(sortedArray, value), Len(sortedArray)))

\* Instance h issued a request in this step; a request of h ended in it.
IssuedIn(h) == issued'[h] > issued[h]
SettledIn(h) == \E r \in requests[h] : r \notin requests'[h]

\* C5: loading is true from the moment a request is issued; a request that
\* ends, however it ends, leaves loading false; and nothing but the end of
\* a request clears loading.
C5_LoadingTracksRequest ==
  [][\A h \in Hooks :
       /\ IssuedIn(h) => (url'[h] # "" /\ loading'[h])
       /\ SettledIn(h) => ~loading'[h]
       /\ (loading[h] /\ ~loading'[h]) => SettledIn(h)]_vars

\* A request that ended in a JSON parse failure, with loading cleared.
C5_Witness ==
  \E h \in Hooks :
    /\ issued[h] > 0
    /\ requests[h] = {}
    /\ ~loading[h]
    /\ error[h] = "Unexpected token < in JSON"

\* C6 (as claimed): when a request ends with a response whose success flag
\* is true, data becomes the response's data field (null when the field is
\* absent or falsy) and error is null.
C6_SuccessSetsDataAndErrorIsNull ==
  [][\A h \in Hooks, o \in Outcomes :
       (o.kind = "json" /\ o.success /\ \E r \in requests[h] : Settle(h, r, o)) =>
         /\ data'[h] = (IF o.data \in Payloads THEN o.data ELSE NULL)
         /\ error'[h] = NULL]_vars

\* The message the claim gives for a failed outcome.
ClaimedError(o) ==
  CASE o.kind = "json" ->
         IF o.error \in {UNDEFINED, ""} THEN "API request failed" ELSE o.error
    [] o.kind = "rejected_value" -> "Network error occurred"
    [] OTHER -> o.message

\* C7: when a request fails, error is set and data is left as it was: the
\* response's error string or 'API request failed' for success false, the
\* Error's message for a rejection with an Error, 'Network error occurred'
\* for any other rejection.
C7_FailureSetsErrorKeepsData ==
  [][\A h \in Hooks, o \in Outcomes :
       (~(o.kind = "json" /\ o.success) /\ \E r \in requests[h] : Settle(h, r, o)) =>
         /\ error'[h] = ClaimedError(o)
         /\ data'[h] = data[h]]_vars

\* A failed request after a successful one: the data is still there.
C7_Witness ==
  \E h \in Hooks :
    /\ data[h] \in Payloads
    /\ error[h] = "API request failed"
    /\ requests[h] = {}

\* C8 (as claimed): after a request fails the hook issues the request again
\* by itself, without the caller calling refetch or changing the url or the
\* dependencies.
C8_FailedRequestIsRetried ==
  \A h \in Hooks :
    (url[h] # "" /\ error[h] # NULL /\ requests[h] = {}) ~> (requests[h] # {})

\* C9: the wrapper returns the loading message whenever loading is true,
\* whatever error is; otherwise the error block (errorMessage and the error
\* text) when error is a non-empty string; otherwise its children.
C9_WrapperShowsExactlyOne ==
  output # NotRendered =>
    LET lm == IF props.loadingMessage = UNDEFINED
              THEN "Loading..." ELSE props.loadingMessage
        em == IF props.errorMessage = UNDEFINED
              THEN "Failed to load data" ELSE props.errorMessage
    IN /\ output.shows \in {"loading", "error", "children"}
       /\ props.loading =>
            (output.shows = "loading" /\ output.first = lm)
       /\ (~props.loading /\ props.error \notin {NULL, ""}) =>
            (output.shows = "error" /\ output.first = em
             /\ output.second = props.error)
       /\ (~props.loading /\ props.error \in {NULL, ""}) =>
            (output.shows = "children" /\ output.first = props.children)
       /\ output.shows = "children" =>
            (~props.loading /\ props.error \in {NULL, ""})

\* Rendered while loading with an error set: the loading message is shown.
C9_Witness ==
  /\ props.loading
  /\ props.error = "Server error"
  /\ output.shows = "loading"

\* Instance g has a request that may still end with data and then shows it.
CanReachLoaded(g) ==
  ENABLED (\E r \in requests[g], o \in Outcomes :
             /\ Settle(g, r, o)
             /\ data'[g] \in Payloads)

\* C10: a step in which one instance issues a request, or a request of it
\* ends, changes no data, loading or error of another instance; and
\* whatever has happened to the others, an instance with a request in
\* flight can still be given its data.
C10_InstancesAreIndependent ==
  /\ [][\A h \in Hooks :
          (IssuedIn(h) \/ SettledIn(h)) =>
            \A g \in Hooks \ {h} :
              /\ data'[g] = data[g]
              /\ loading'[g] = loading[g]
              /\ error'[g] = error[g]]_vars
  /\ [](\A g \in Hooks : requests[g] # {} => CanReachLoaded(g))

\* One endpoint has failed and the component of the other shows its data.
C10_Witness ==
  /\ error["analysis"] = "Failed to fetch"
  /\ HookView("analysis").shows = "error"
  /\ data["hardest"] \in Payloads
  /\ HookView("hardest").shows = "children"
  /\ HookView("hardest").first = data["hardest"]

\* The positions of deploy.sh after its configuration check.
DeploymentSteps ==
  {"builds_submit", "run_deploy", "services_describe", "report", "done"}

\* C11: when PROJECT_ID or GCS_BUCKET_NAME is unset or empty, deploy.sh
\* exits with status 1 and has run no gcloud command; when WEB_SERVICE_NAME
\* or REGION is unset it goes on with 'bitcoin-ath-dashboard' and
\* 'us-central1', and these are what its gcloud commands are given.
C11_DeployValidatesEnvironment ==
  LET e == deploy.env
      past == deploy.pc \in DeploymentSteps \/ deploy.gcloud # <<>>
  IN /\ (e.PROJECT_ID = "" \/ e.GCS_BUCKET_NAME = "") =>
          /\ deploy.gcloud = <<>>
          /\ deploy.pc \notin DeploymentSteps
          /\ deploy.pc = "exited" => deploy.status = 1
     /\ (e.PROJECT_ID = "" /\ deploy.pc # "check_project_id") =>
          deploy.pc = "exited"
     /\ (e.GCS_BUCKET_NAME = ""
         /\ deploy.pc \notin {"check_project_id", "set_service_name",
                              "set_region", "check_bucket"}) =>
          deploy.pc = "exited"
     /\ past =>
          /\ e.WEB_SERVICE_NAME = "" => deploy.SERVICE_NAME = "bitcoin-ath-dashboard"
          /\ e.WEB_SERVICE_NAME # "" => deploy.SERVICE_NAME = e.WEB_SERVICE_NAME
          /\ e.REGION = "" => deploy.REGION = "us-central1"
          /\ e.REGION # "" => deploy.REGION = e.REGION
          /\ \A k \in 1..Len(deploy.gcloud) :
               /\ deploy.gcloud[k].service = deploy.SERVICE_NAME
               /\ deploy.gcloud[k].region \in {"", deploy.REGION}

\* Started without a service name, a region and a bucket: the defaults were
\* taken, then the script exited with status 1 before any gcloud command.
C11_Witness ==
  /\ deploy.env.PROJECT_ID # ""
  /\ deploy.env.WEB_SERVICE_NAME = ""
  /\ deploy.env.REGION = ""
  /\ deploy.env.GCS_BUCKET_NAME = ""
  /\ deploy.SERVICE_NAME = "bitcoin-ath-dashboard"
  /\ deploy.REGION = "us-central1"
  /\ deploy.pc = "exited"
  /\ deploy.status = 1
  /\ deploy.gcloud = <<>>

\* C12 (as claimed): test-deployment.sh reaches its 'All tests passed'
\* report, with exit status 0, only in runs where the container was found
\* running and the HTTP request to it succeeded.
C12_PassedOnlyIfRunningAndResponding ==
  testrun.pc = "passed" =>
    /\ testrun.status = 0
    /\ testrun.running
    /\ testrun.responded

\* C13 (as claimed): once every request of an instance has ended, the data
\* and error it holds are those of the request issued last, in whatever
\* order the responses came: its data and a null error when that request
\* succeeded, its error when it failed.
C13_LatestRequestWins ==
  \A h \in Hooks :
    (issued[h] > 0 /\ requests[h] = {}) =>
      IF latest[h].kind = "json" /\ latest[h].success
      THEN /\ data[h] = (IF latest[h].data \in Payloads THEN latest[h].data ELSE NULL)
           /\ error[h] = NULL
      ELSE error[h] = ClaimedError(latest[h])

\* C14 (as claimed): an instance with a non-empty url has loading false
\* only when none of its requests is in flight.
C14_LoadingFalseOnlyWhenIdle ==
  \A h \in Hooks : (url[h] # "" /\ ~loading[h]) => requests[h] = {}

\* C15: issuing a request sets loading to true and error to null and
\* leaves data as it was, and a request that fails leaves data as it was:
\* data from an earlier success is there while a later request is in
\* flight and after it has failed.
C15_IssuingKeepsData ==
  [][\A h \in Hooks :
       /\ IssuedIn(h) =>
            /\ loading'[h]
            /\ error'[h] = NULL
            /\ data'[h] = data[h]
       /\ \A o \in Outcomes :
            (~(o.kind = "json" /\ o.success) /\ \E r \in requests[h] : Settle(h, r, o))
              => data'[h] = data[h]]_vars

\* Data from the first request is held while a later request is in flight.
C15_Witness ==
  \E h \in Hooks :
    /\ issued[h] >= 2
    /\ requests[h] = {issued[h]}
    /\ loading[h]
    /\ error[h] = NULL
    /\ data[h] \in Payloads

\* C16: with an empty url refetch starts no fetch and changes none of
\* data, loading and error; an instance that has issued no request is in
\* its initial state (data null, loading true, error null), and a request
\* is issued only with a non-empty url.
C16_EmptyUrlChangesNothing ==
  /\ [](\A h \in Hooks :
          issued[h] = 0 =>
            /\ data[h] = NULL
            /\ loading[h]
            /\ error[h] = NULL
            /\ requests[h] = {})
  /\ [][\A h \in Hooks :
          /\ IssuedIn(h) => url'[h] # ""
          /\ (url'[h] = "" /\ ~SettledIn(h)) =>
               /\ data'[h] = data[h]
               /\ loading'[h] = loading[h]
               /\ error'[h] = error[h]
               /\ requests'[h] = requests[h]
               /\ issued'[h] = issued[h]]_vars

\* The effect has run on an instance created with an empty url.
C16_Witness ==
  \E h \in Hooks :
    /\ mounted[h]
    /\ url[h] = ""
    /\ issued[h] = 0
    /\ data[h] = NULL
    /\ loading[h]
    /\ error[h] = NULL

\* C17 (as claimed): an instance that has had a request end and is not
\* loading holds a non-empty error or non-null data, so the wrapper fed
\* from it shows the error block or children that have data to render.
C17_SettledHoldsErrorOrData ==
  \A h \in Hooks :
    (issued[h] > Cardinality(requests[h]) /\ ~loading[h]) =>
      /\ Truthy(error[h]) \/ data[h] # NULL
      /\ \/ HookView(h).shows = "error"
         \/ HookView(h).shows = "children" /\ HookView(h).first # "false"

C19_InvokedNoEarlierThanWait ==
  /\ \A k \in 1..Len(invoked) :
       /\ invoked[k].after \in 1..Len(calls)
       /\ invoked[k].time >= calls[invoked[k].after].time + wait
       /\ invoked[k].args = calls[invoked[k].after].args
  /\ Cardinality(timers) <= 1
  /\ \A t \in timers :
       /\ t.id = Len(calls)
       /\ t.id = timeout
       /\ t.args = calls[Len(calls)].args
       /\ t.due >= calls[Len(calls)].time + wait

\* Two calls with different arguments, the second later than the first and
\* before the first call's timer ran: func was invoked once, with the
\* second call's arguments.
C19_Witness ==
  /\ wait > 0
  /\ Len(calls) = 2
  /\ calls[2].time > calls[1].time
  /\ calls[2].args # calls[1].args
  /\ Len(invoked) = 1
  /\ invoked[1].after = 2
  /\ invoked[1].args = calls[2].args

\* The maximal bursts of the calls made so far: a call starts a burst when
\* it is the first call or comes wait or more after the call before it.
Bursts ==
  IF calls = <<>> THEN 0
  ELSE 1 + Cardinality({k \in 2..Len(calls) : calls[k].time - calls[k - 1].time >= wait})

\* The runs of the calls made so far: a call starts a run when no timer is
\* pending, that is when it is the first call or the timer of the call
\* before it has run.
Runs == Cardinality({k \in 1..Len(calls) : calls[k].fresh})

\* C20 (as claimed): once no timer is pending func has been invoked exactly
\* once for each maximal burst of calls less than wait apart; the
\* invocations never exceed the calls and, after a call, are at least one.
C20_InvokedOncePerBurst ==
  /\ Len(invoked) <= Len(calls)
  /\ timers = {} =>
       /\ Len(invoked) = Bursts
       /\ calls # <<>> => Len(invoked) >= 1

\* C20 (amended): func is invoked at most once for each maximal burst and,
\* once no timer is pending, exactly once for each run of calls that came
\* before the pending timer had run; the invocations never exceed the
\* calls and, after a call, are at least one.
C20_InvokedOncePerRun ==
  /\ Len(invoked) <= Bursts
  /\ Runs <= Bursts
  /\ Bursts <= Len(calls)
  /\ Len(invoked) + Cardinality(timers) = Runs
  /\ timers = {} =>
       /\ Len(invoked) = Runs
       /\ calls # <<>> => Len(invoked) >= 1

\* Two calls wait or more apart, the second made when the first call's
\* timer was due and had not run: two bursts, one run, one invocation.
C20_Witness ==
  /\ Len(calls) = 2
  /\ calls[2].time - calls[1].time >= wait
  /\ wait > 0
  /\ ~calls[2].fresh
  /\ timers = {}
  /\ Len(invoked) = 1

\* Whether the number x is at least lo and below hi.
Within(x, lo, hi) == x.den # 0 /\ lo * x.den <= x.num /\ x.num < hi * x.den
AtLeast(x, lo) == x.den # 0 /\ lo * x.den <= x.num
Below(x, hi) == x.den # 0 /\ x.num < hi * x.den

\* The color the claim pairs with each intensity band.
ColorOfBand(intensity) ==
  CASE intensity = "euphoric" -> "text-green-600"
    [] intensity = "good" -> "text-green-500"
    [] intensity = "okay" -> "text-yellow-500"
    [] intensity = "tough" -> "text-orange-500"
    [] intensity = "hard" -> "text-red-500"

\* C21: getSentimentData puts a number in the band euphoric from 90, good
\* from 70, okay from 50, tough from 30 and hard below 30, each lower bound
\* included; its color, bgColor and word are those of getSentimentColor,
\* getSentimentBg and getSentimentWord for the same input; and the color is
\* the one of the band: green-600, green-500, yellow-500, orange-500,
\* red-500.
C21_SentimentDataHasFiveBands ==
  \A k \in 1..Len(sentiments) :
    LET x == percents[k]
        d == sentiments[k]
    IN /\ d.intensity \in {"euphoric", "good", "okay", "tough", "hard"}
       /\ x.den # 0 =>
            /\ (d.intensity = "euphoric") <=> AtLeast(x, 90)
            /\ (d.intensity = "good") <=> Within(x, 70, 90)
            /\ (d.intensity = "okay") <=> Within(x, 50, 70)
            /\ (d.intensity = "tough") <=> Within(x, 30, 50)
            /\ (d.intensity = "hard") <=> Below(x, 30)
       /\ d.color = getSentimentColor(x)
       /\ d.bgColor = getSentimentBg(x)
       /\ d.word = getSentimentWord(x)
       /\ d.color = ColorOfBand(d.intensity)

\* getSentimentData applied to 90 and to 89.5: euphoric, and good.
C21_Witness ==
  /\ sentiments # <<>>
  /\ percents = <<Frac(180, 2), Frac(179, 2)>>
  /\ sentiments[1].intensity = "euphoric"
  /\ sentiments[1].color = "text-green-600"
  /\ sentiments[2].intensity = "good"
  /\ sentiments[2].color = "text-green-500"

\* C22: getSentimentWord gives a number 'an easy' from 90, 'a medium' from
\* 70, 'a hard' from 50 and 'really hard' below 50, each lower bound
\* included, and nothing else; so the tough and the hard band share
\* 'really hard', and getSentimentBg gives the euphoric and the good band
\* the same classes.
C22_WordHasFourPhrases ==
  \A k \in 1..Len(sentiments) :
    LET x == percents[k]
        d == sentiments[k]
    IN /\ d.word \in {"an easy", "a medium", "a hard", "really hard"}
       /\ x.den # 0 =>
            /\ (d.word = "an easy") <=> AtLeast(x, 90)
            /\ (d.word = "a medium") <=> Within(x, 70, 90)
            /\ (d.word = "a hard") <=> Within(x, 50, 70)
            /\ (d.word = "really hard") <=> Below(x, 50)
       /\ d.intensity \in {"tough", "hard"} => d.word = "really hard"
       /\ d.intensity \in {"euphoric", "good"} =>
            d.bgColor = "bg-green-50 border-green-200"

\* A value of the tough band and one of the hard band, with the same word;
\* the backgrounds of the two bands differ.
C22_Witness ==
  /\ sentiments # <<>>
  /\ sentiments[1].intensity = "tough"
  /\ sentiments[2].intensity = "hard"
  /\ sentiments[1].word = "really hard"
  /\ sentiments[2].word = "really hard"
  /\ sentiments[1].bgColor # sentiments[2].bgColor

\* The bands of each result, numbered from the hardest.
ColorBand(c) ==
  CASE c = "text-red-500" -> 1 [] c = "text-orange-500" -> 2
    [] c = "text-yellow-500" -> 3 [] c = "text-green-500" -> 4
    [] c = "text-green-600" -> 5
BgBand(c) ==
  CASE c = "bg-red-50 border-red-200" -> 1
    [] c = "bg-orange-50 border-orange-200" -> 2
    [] c = "bg-yellow-50 border-yellow-200" -> 3
    [] c = "bg-green-50 border-green-200" -> 4
WordBand(w) ==
  CASE w = "really hard" -> 1 [] w = "a hard" -> 2 [] w = "a medium" -> 3
    [] w = "an easy" -> 4
IntensityBand(i) ==
  CASE i = "hard" -> 1 [] i = "tough" -> 2 [] i = "okay" -> 3 [] i = "good" -> 4
    [] i = "euphoric" -> 5
GradientBand(g) ==
  CASE g = "from-red-600 to-red-700" -> 1 [] g = "from-red-500 to-red-600" -> 2
    [] g = "from-orange-500 to-red-500" -> 3
    [] g = "from-orange-400 to-orange-500" -> 4

\* a <= b for two numbers.
LessOrEqual(a, b) == a.den # 0 /\ b.den # 0 /\ a.num * b.den <= b.num * a.den

\* C23: for numbers a <= b, the band of getSentimentColor, getSentimentBg,
\* getSentimentWord, getSentimentData's intensity and getIntensityColor at
\* b is never a harder band than at a.
C23_SentimentIsMonotone ==
  LessOrEqual(percents[1], percents[2]) =>
    /\ sentiments # <<>> =>
         /\ ColorBand(sentiments[1].color) <= ColorBand(sentiments[2].color)
         /\ BgBand(sentiments[1].bgColor) <= BgBand(sentiments[2].bgColor)
         /\ WordBand(sentiments[1].word) <= WordBand(sentiments[2].word)
         /\ IntensityBand(sentiments[1].intensity)
              <= IntensityBand(sentiments[2].intensity)
    /\ gradients # <<>> =>
         GradientBand(gradients[1]) <= GradientBand(gradients[2])

\* Both utilities applied to 34.5 and to 49.5: the gradient and the color
\* are of an easier band at the higher value.
C23_Witness ==
  /\ percents = <<Frac(69, 2), Frac(99, 2)>>
  /\ sentiments # <<>>
  /\ gradients # <<>>
  /\ GradientBand(gradients[1]) < GradientBand(gradients[2])
  /\ IntensityBand(sentiments[1].intensity) = IntensityBand(sentiments[2].intensity)

\* Whether merged holds the caller's value for every key the caller gave
\* and the default, as it is, for every other key of the defaults.
MergedShallowly(merged, defaults, given) ==
  /\ DOMAIN merged = DOMAIN defaults \cup DOMAIN given
  /\ \A k \in DOMAIN given : merged[k] = given[k]
  /\ \A k \in DOMAIN defaults \ DOMAIN given : merged[k] = defaults[k]

\* C24: the layout and config PlotlyChart passes to Plot hold, for every
\* top-level key the caller gave, the caller's value as a whole, and for
\* every key of the defaults the caller did not give (margin, the
\* background colors, font, autosize, xaxis, yaxis; responsive,
\* displayModeBar) the default unchanged.
C24_PlotlyChartMergesShallowly ==
  plot # EmptyObject =>
    /\ MergedShallowly(plot.layout, defaultLayout,
                       IF "layout" \in chart.given THEN chart.layout ELSE EmptyObject)
    /\ MergedShallowly(plot.config, defaultConfig,
                       IF "config" \in chart.given THEN chart.config ELSE EmptyObject)

\* The caller gave an xaxis with a title only and a displayModeBar: the
\* xaxis passed on has no showgrid, the yaxis and responsive are the
\* defaults.
C24_Witness ==
  /\ plot # EmptyObject
  /\ chart.given = {"layout", "config"}
  /\ DOMAIN chart.layout = {"xaxis"}
  /\ DOMAIN chart.config = {"displayModeBar"}
  /\ plot.layout.xaxis = [title |-> "Date"]
  /\ plot.layout.yaxis = [showgrid |-> "true", gridcolor |-> "#f0f0f0"]
  /\ plot.config.displayModeBar = Scalar("true")
  /\ plot.config.responsive = Scalar("true")

====
